---- MODULE Spec2Model ----
(***************************************************************************)
(* Model of dagster/_core/definitions/asset_graph.py: construction of the  *)
(* AssetGraph from a collection of asset definitions (normalize_assets,    *)
(* from_assets, _build_assets_defs_by_op_node_names), the execution-set    *)
(* queries of the graph, materializable_in_same_run,                       *)
(* _resolve_output_to_destinations, the concurrent first access of the     *)
(* graph's cached properties, and the order of evaluation within a tick.   *)
(*                                                                         *)
(* An AssetKey is an integer of Keys (AssetKeys are totally ordered, which *)
(* the sort of _build_assets_defs_by_op_node_names relies on).  An         *)
(* AssetCheckKey is a pair <<asset_key, name>>.  A set that mixes asset    *)
(* keys and check keys (AbstractSet[AssetKeyOrCheckKey]) is the record     *)
(* [asset_keys |-> ..., check_keys |-> ...] of its two parts.              *)
(***************************************************************************)
EXTENDS Integers, Sequences, FiniteSets, TLC

\* Bounds of the model: the asset keys there are, the definitions a collection
\* holds under Spec, and the definitions it holds under NamesSpec.
NumKeys == 2
MaxDefs == 2
MaxNamedDefs == 3

Keys == 1..NumKeys
CheckNames == {"c"}
CheckKeys == Keys \X CheckNames
NodeNames == {"foo", "foo_2"}

VARIABLES
    assets,      \* the iterable handed to AssetGraph.from_assets
    pc,          \* "input" | "built" | "failed" | "queried"
    graph,       \* the AssetGraph that from_assets returned
    assets_defs, \* from_assets' local: what normalize_assets returned
    assets_defs_by_op_node_names, \* from_assets' local of that name
    exec_sets,   \* results of get_execution_set_asset_and_check_keys and of
                 \* execution_set_asset_keys
    call,        \* the arguments of a call of materializable_in_same_run or of
                 \* _resolve_output_to_destinations
    result,      \* what that call returned
    evaluation,  \* the state of each asset's evaluation in the current tick
    cache,       \* the graph's __dict__ entries of its cached properties
    readers      \* the threads that read the graph's cached properties

vars == <<assets, pc, graph, assets_defs, assets_defs_by_op_node_names,
          exec_sets, call, result, evaluation, cache, readers>>

----------------------------------------------------------------------------
\* Sequences and sets

Range(s) == {s[i] : i \in DOMAIN s}

RECURSIVE SortedSeq(_)
\* sorted(set of asset keys)
SortedSeq(S) ==
    IF S = {} THEN <<>>
    ELSE LET m == CHOOSE x \in S : \A y \in S : x <= y
         IN <<m>> \o SortedSeq(S \ {m})

RECURSIVE LexLess(_, _)
\* Python's list comparison s < t
LexLess(s, t) ==
    IF t = <<>> THEN FALSE
    ELSE IF s = <<>> THEN TRUE
    ELSE IF Head(s) # Head(t) THEN Head(s) < Head(t)
    ELSE LexLess(Tail(s), Tail(t))

PermutationsOf(n) ==
    {p \in [1..n -> 1..n] : \A i, j \in 1..n : i # j => p[i] # p[j]}

Permuted(s, p) == [i \in DOMAIN s |-> s[p[i]]]

----------------------------------------------------------------------------
\* Definitions handed to the graph

KeySet(as, cs) == [asset_keys |-> as, check_keys |-> cs]

\* An AssetsDefinition with an op or graph behind it.
AssetsDef(ks, deps, cks, subsettable, name, wired) ==
    [keys |-> ks,
     asset_deps |-> deps,
     check_keys |-> cks,
     can_subset |-> subsettable,
     execution_type |-> "MATERIALIZATION",
     node_name |-> name,
     wired |-> wired,
     auto_created_stub |-> FALSE]

\* A SourceAsset.
SourceAsset(k) == [key |-> k]

IsSourceAsset(a) == "key" \in DOMAIN a

\* create_external_asset_from_source_asset: an unexecutable definition of the
\* source asset's key.
create_external_asset_from_source_asset(a) ==
    [keys |-> {a.key},
     asset_deps |-> [k \in {a.key} |-> {}],
     check_keys |-> {},
     can_subset |-> FALSE,
     execution_type |-> "UNEXECUTABLE",
     node_name |-> "",
     wired |-> TRUE,
     auto_created_stub |-> FALSE]

\* external_asset_from_spec(AssetSpec(key, metadata={AUTO_CREATED_STUB: True}))
external_asset_from_spec(k, stubTag) ==
    [keys |-> {k},
     asset_deps |-> [x \in {k} |-> {}],
     check_keys |-> {},
     can_subset |-> FALSE,
     execution_type |-> "UNEXECUTABLE",
     node_name |-> "",
     wired |-> TRUE,
     auto_created_stub |-> stubTag]

is_executable(ad) == ad.execution_type # "UNEXECUTABLE"
is_materializable(ad) == ad.execution_type = "MATERIALIZATION"
asset_and_check_keys(ad) == KeySet(ad.keys, ad.check_keys)

\* AssetsDefinition.dependency_keys: the keys upstream of the definition's
\* assets and the assets its checks target.
dependency_keys(ad) ==
    (UNION {ad.asset_deps[k] : k \in ad.keys})
        \cup {ck[1] : ck \in ad.check_keys}

----------------------------------------------------------------------------
\* AssetGraph.normalize_assets

\* A variant that forgets to take the defined keys out of the referenced ones.
MissingKeysNoDifference(ads) ==
    UNION {dependency_keys(ads[i]) : i \in DOMAIN ads}

\* The keys referenced by some definition for which no definition was given.
MissingKeys(ads) ==
    LET all_keys == UNION {ads[i].keys : i \in DOMAIN ads}
        all_referenced_asset_keys ==
            UNION {dependency_keys(ads[i]) : i \in DOMAIN ads}
    IN all_referenced_asset_keys \ all_keys

\* Source assets become external assets.  Dependency keys of the model are
\* absolute keys, which the resolution of relative keys leaves as they are.
ConvertSources(as) ==
    [i \in DOMAIN as |->
        IF IsSourceAsset(as[i]) THEN create_external_asset_from_source_asset(as[i])
        ELSE as[i]]

\* A variant that appends no stub definition.
normalize_assets_without_stubs(as, order) == ConvertSources(as)

\* `order` is the order in which the loop over the set difference visits the
\* missing keys (a set has no order of its own).
normalize_assets(as, order) ==
    LET ads == ConvertSources(as)
    IN ads \o [i \in DOMAIN order |-> external_asset_from_spec(order[i], TRUE)]

\* The orders in which a set of keys can be visited.
Orders(S) ==
    {o \in [1..Cardinality(S) -> S] : \A i, j \in DOMAIN o : i # j => o[i] # o[j]}

----------------------------------------------------------------------------
\* generate_asset_dep_graph: upstream and downstream adjacency from every
\* definition's dependency keys.
generate_asset_dep_graph(ads) ==
    LET defs == Range(ads)
        all_keys == UNION {d.keys : d \in defs}
        up == [k \in all_keys |->
                 UNION {d.asset_deps[k] : d \in {e \in defs : k \in e.keys}}]
        referenced == UNION {up[k] : k \in all_keys}
    IN [upstream |-> up,
        downstream |-> [k \in all_keys \cup referenced |->
                          {c \in all_keys : k \in up[c]}]]

----------------------------------------------------------------------------
\* AssetGraph._build_assets_defs_by_op_node_names

\* list.insert of sorted(): stable, so `ad` goes behind every element whose
\* sort key is not greater than its own.
RECURSIVE SortInsert(_, _)
SortInsert(sorted, ad) ==
    IF sorted = <<>> THEN <<ad>>
    ELSE IF LexLess(SortedSeq(ad.keys), SortedSeq(Head(sorted).keys))
         THEN <<ad>> \o sorted
         ELSE <<Head(sorted)>> \o SortInsert(Tail(sorted), ad)

RECURSIVE SortByKeys(_)
\* sorted(assets_defs, key=lambda ad: sorted(ad.keys))
SortByKeys(ads) ==
    IF ads = <<>> THEN <<>>
    ELSE SortInsert(SortByKeys(SubSeq(ads, 1, Len(ads) - 1)),
                    ads[Len(ads)])

\* f"{node_name}_{n}"
NodeAlias(node_name, n) == node_name \o "_" \o ToString(n)

\* One turn of the loop: the alias of `ad` and the dictionaries after it.
\* `result` is a dict: `order` keeps the order its keys were first inserted in.
AliasStep(st, ad) ==
    LET node_name == ad.node_name
        seen == node_name \in DOMAIN st.collisions
        n == IF seen THEN st.collisions[node_name] + 1 ELSE 1
        node_alias == IF seen THEN NodeAlias(node_name, n) ELSE node_name
    IN [collisions |-> [x \in DOMAIN st.collisions \cup {node_name} |->
                          IF x = node_name THEN n ELSE st.collisions[x]],
        order |-> IF node_alias \in DOMAIN st.map THEN st.order
                  ELSE Append(st.order, node_alias),
        map |-> [a \in DOMAIN st.map \cup {node_alias} |->
                   IF a = node_alias THEN ad ELSE st.map[a]]]

RECURSIVE AliasLoop(_, _)
AliasLoop(st, ads) ==
    IF ads = <<>> THEN st
    ELSE AliasLoop(IF is_executable(Head(ads)) THEN AliasStep(st, Head(ads)) ELSE st,
                   Tail(ads))

EmptyFun == [x \in {} |-> 0]

build_assets_defs_by_op_node_names(ads) ==
    AliasLoop([collisions |-> EmptyFun, order |-> <<>>, map |-> EmptyFun],
              SortByKeys(ads))

----------------------------------------------------------------------------
\* AssetGraph.from_assets

\* NodeDefinition.resolve_output_to_origin: the leaf output behind an output
\* of the definition's node; it raises when the node's wiring is malformed.
ResolvesToOrigin(ad) == ad.wired

\* The definition a dict comprehension over (ad, key) leaves at `key`: the
\* last one of the list that has the key.
LastWithKey(ads, key) ==
    ads[CHOOSE i \in DOMAIN ads :
            /\ key \in ads[i].keys
            /\ \A j \in DOMAIN ads : j > i => key \notin ads[j].keys]

AssetNode(key, parent_keys, child_keys, assets_def, check_keys) ==
    [key |-> key,
     parent_keys |-> parent_keys,
     child_keys |-> child_keys,
     assets_def |-> assets_def,
     check_keys |-> check_keys]

\* A variant that hands a node its upstream keys as child keys too.
AssetNodesByKeyUpstreamTwice(ads) ==
    LET dep_graph == generate_asset_dep_graph(ads)
    IN [key \in UNION {ads[i].keys : i \in DOMAIN ads} |->
          AssetNode(key,
                    dep_graph.upstream[key],
                    dep_graph.upstream[key],
                    LastWithKey(ads, key),
                    {ck \in UNION {ads[i].check_keys : i \in DOMAIN ads} : ck[1] = key})]

\* A variant that hands a node its downstream keys as parents and its upstream
\* keys as children.
AssetNodesByKeyDownstreamAsParents(ads) ==
    LET dep_graph == generate_asset_dep_graph(ads)
    IN [key \in UNION {ads[i].keys : i \in DOMAIN ads} |->
          AssetNode(key,
                    dep_graph.downstream[key],
                    dep_graph.upstream[key],
                    LastWithKey(ads, key),
                    {ck \in UNION {ads[i].check_keys : i \in DOMAIN ads} : ck[1] = key})]

AssetNodesByKey(ads) ==
    LET dep_graph == generate_asset_dep_graph(ads)
        check_keys_by_asset_key ==
            [k \in Keys |-> {ck \in UNION {ads[i].check_keys : i \in DOMAIN ads} :
                               ck[1] = k}]
    IN [key \in UNION {ads[i].keys : i \in DOMAIN ads} |->
          AssetNode(key,
                    dep_graph.upstream[key],
                    dep_graph.downstream[key],
                    LastWithKey(ads, key),
                    check_keys_by_asset_key[key])]

\* The second assets_defs_by_check_key, which the loop over
\* assets_defs_by_op_node_names.items() fills and the graph is given.
RECURSIVE ChecksLoop(_, _, _)
ChecksLoop(by_check_key, order, map) ==
    IF order = <<>> THEN by_check_key
    ELSE LET assets_def == map[Head(order)]
             updated == [ck \in DOMAIN by_check_key \cup assets_def.check_keys |->
                           IF ck \in assets_def.check_keys THEN assets_def
                           ELSE by_check_key[ck]]
         IN ChecksLoop(updated, Tail(order), map)

\* asset_key_by_output: the leaf output handle of each asset output, a handle
\* being <<the alias of the definition's node, the output's key>>.
AssetKeyByOutput(names) ==
    [h \in {x \in (DOMAIN names.map) \X Keys : x[2] \in names.map[x[1]].keys} |->
        h[2]]

\* A variant in which a failure to resolve is kept to its definition.
RaisesNever(names) == FALSE

\* Some definition of the loop has an output whose origin does not resolve:
\* resolve_output_to_origin raises and from_assets with it.
Raises(names) ==
    \E a \in DOMAIN names.map :
        LET ad == names.map[a]
        IN /\ ad.keys # {} \/ ad.check_keys # {}
           /\ ~ResolvesToOrigin(ad)

EmptyGraph ==
    [asset_nodes_by_key |-> EmptyFun,
     assets_defs_by_check_key |-> EmptyFun,
     asset_keys_by_node_output_handle |-> EmptyFun]

AssetGraph(asset_nodes_by_key, assets_defs_by_check_key, asset_keys_by_node_output_handle) ==
    [asset_nodes_by_key |-> asset_nodes_by_key,
     assets_defs_by_check_key |-> assets_defs_by_check_key,
     asset_keys_by_node_output_handle |-> asset_keys_by_node_output_handle]

\* from_assets on the normalized definitions `ads`: whether it raised, and the
\* graph it returned otherwise.
from_normalized(ads) ==
    LET names == build_assets_defs_by_op_node_names(ads)
    IN IF Raises(names)
       THEN [raised |-> TRUE, names |-> names, graph |-> EmptyGraph]
       ELSE [raised |-> FALSE, names |-> names,
             graph |-> AssetGraph(AssetNodesByKey(ads),
                                  ChecksLoop(EmptyFun, names.order, names.map),
                                  AssetKeyByOutput(names))]

----------------------------------------------------------------------------
\* Queries on the graph

Get(g, key) == g.asset_nodes_by_key[key]

\* A variant that answers with the definition's asset keys alone, as
\* execution_set_asset_keys does.
execution_set_without_checks(node) ==
    IF node.assets_def.can_subset THEN KeySet({node.key}, {})
    ELSE KeySet(node.assets_def.keys, {})

\* A variant that looks at the number of keys alone, not at can_subset.
execution_set_asset_keys_by_size(node) ==
    IF Cardinality(node.assets_def.keys) <= 1 THEN {node.key}
    ELSE node.assets_def.keys

\* AssetNode.execution_set_asset_keys
execution_set_asset_keys(node) ==
    IF Cardinality(node.assets_def.keys) <= 1 \/ node.assets_def.can_subset
    THEN {node.key}
    ELSE node.assets_def.keys

\* AssetNode.execution_set_asset_and_check_keys
execution_set_asset_and_check_keys(node) ==
    IF node.assets_def.can_subset THEN KeySet({node.key}, {})
    ELSE asset_and_check_keys(node.assets_def)

\* AssetGraph.get_execution_set_asset_and_check_keys, for an asset key
ExecutionSetOfAsset(g, asset_key) ==
    execution_set_asset_and_check_keys(Get(g, asset_key))

\* AssetGraph.get_execution_set_asset_and_check_keys, for a check key
ExecutionSetOfCheck(g, check_key) ==
    LET assets_def == g.assets_defs_by_check_key[check_key]
    IN IF assets_def.can_subset THEN KeySet({}, {check_key})
       ELSE asset_and_check_keys(assets_def)

\* A variant that leaves out the definitions of the bound checks.
graph_assets_defs_of_nodes(g) ==
    {g.asset_nodes_by_key[k].assets_def : k \in DOMAIN g.asset_nodes_by_key}

\* AssetGraph.assets_defs: the definitions of the nodes and of the bound checks
graph_assets_defs(g) ==
    {g.asset_nodes_by_key[k].assets_def : k \in DOMAIN g.asset_nodes_by_key}
        \cup {g.assets_defs_by_check_key[ck] : ck \in DOMAIN g.assets_defs_by_check_key}

\* AssetGraph.asset_check_keys
asset_check_keys(g) == UNION {ad.check_keys : ad \in graph_assets_defs(g)}

\* AssetGraph.get_spec_for_asset_check returns a spec and not None
HasSpecForAssetCheck(g, asset_check_key) ==
    /\ asset_check_key \in DOMAIN g.assets_defs_by_check_key
    /\ asset_check_key \in g.assets_defs_by_check_key[asset_check_key].check_keys

----------------------------------------------------------------------------
\* The definitions the model hands to from_assets

\* The dependencies of the assets of one definition: each asset depends on the
\* keys of `ds` outside the definition and on the definition's lower keys in it.
DepsFor(ks, ds) == [k \in ks |-> {d \in ds : d \notin ks \/ d < k}]

\* Definitions over one op name whose dependencies, checks and subsettability
\* vary: each has at most one dependency key `ds` and at most one check, of
\* one of its own assets.
StructuralDefs ==
    UNION {
        {AssetsDef(ks, DepsFor(ks, ds), cks, sub, "foo", TRUE) :
            ds \in {{}} \cup {{d} : d \in Keys},
            cks \in {{}} \cup {{<<k, "c">>} : k \in ks},
            sub \in BOOLEAN}
        : ks \in (SUBSET Keys) \ {{}}}

\* Definitions without dependencies whose op name and wiring vary.
NamedDefs ==
    UNION {
        {AssetsDef(ks, DepsFor(ks, {}), cks, FALSE, name, wired) :
            cks \in {{}} \cup {{<<k, "c">>} : k \in ks},
            name \in NodeNames, wired \in BOOLEAN}
        : ks \in (SUBSET Keys) \ {{}}}

\* Definitions of checks alone: no asset keys, one check of some asset.
ChecksDefs ==
    {AssetsDef({}, EmptyFun, {ck}, FALSE, name, wired) :
        ck \in CheckKeys, name \in NodeNames, wired \in BOOLEAN}

SourceAssets == {SourceAsset(k) : k \in Keys}

Inputs == StructuralDefs \cup NamedDefs \cup ChecksDefs \cup SourceAssets

InputKeys(a) == IF IsSourceAsset(a) THEN {a.key} ELSE a.keys
InputCheckKeys(a) == IF IsSourceAsset(a) THEN {} ELSE a.check_keys

----------------------------------------------------------------------------
\* materializable_in_same_run

PartitionsDefs == {"None", "daily", "static"}
PartitionMappings == {"TimeWindowPartitionMapping", "IdentityPartitionMapping",
                      "CustomPartitionMapping"}
RepositoryHandles == {"repo_a", "repo_b"}

\* AssetNode.is_partitioned
is_partitioned(node) == node.partitions_def # "None"

\* A variant without the comparison of the two partitions definitions.
same_run_any_partitioning(asset_graph, child_key, parent_key) ==
    LET child_node == asset_graph.nodes[child_key]
        parent_node == asset_graph.nodes[parent_key]
    IN /\ child_node.is_materializable
       /\ parent_node.is_materializable
       /\ \/ ~is_partitioned(parent_node)
          \/ asset_graph.partition_mapping[<<child_key, parent_key>>]
                \in {"TimeWindowPartitionMapping", "IdentityPartitionMapping"}
       /\ \/ ~asset_graph.remote
          \/ asset_graph.repository_handle[child_key]
                = asset_graph.repository_handle[parent_key]

\* A variant without the comparison of the repository handles.
same_run_any_repository(asset_graph, child_key, parent_key) ==
    LET child_node == asset_graph.nodes[child_key]
        parent_node == asset_graph.nodes[parent_key]
    IN /\ child_node.is_materializable
       /\ parent_node.is_materializable
       /\ child_node.partitions_def = parent_node.partitions_def
       /\ \/ ~is_partitioned(parent_node)
          \/ asset_graph.partition_mapping[<<child_key, parent_key>>]
                \in {"TimeWindowPartitionMapping", "IdentityPartitionMapping"}

materializable_in_same_run(asset_graph, child_key, parent_key) ==
    LET child_node == asset_graph.nodes[child_key]
        parent_node == asset_graph.nodes[parent_key]
    IN /\ child_node.is_materializable
       /\ parent_node.is_materializable
       /\ child_node.partitions_def = parent_node.partitions_def
       /\ \/ ~is_partitioned(parent_node)
          \/ asset_graph.partition_mapping[<<child_key, parent_key>>]
                \in {"TimeWindowPartitionMapping", "IdentityPartitionMapping"}
       /\ \/ ~asset_graph.remote
          \/ asset_graph.repository_handle[child_key]
                = asset_graph.repository_handle[parent_key]

ChildKey == 1
ParentKey == 2

\* The graphs materializable_in_same_run is called on: an AssetGraph or a
\* RemoteAssetGraph (which alone has repository handles) of a child and a
\* parent, with the partition mapping get_partition_mapping has for the edge.
SameRunGraphs ==
    {[remote |-> remote,
      nodes |-> [k \in {ChildKey, ParentKey} |->
                   [is_materializable |-> IF k = ChildKey THEN cm ELSE pm,
                    partitions_def |-> IF k = ChildKey THEN cp ELSE pp]],
      partition_mapping |-> [e \in {<<ChildKey, ParentKey>>} |-> mapping],
      repository_handle |-> [k \in {ChildKey, ParentKey} |->
                               IF k = ChildKey THEN ch ELSE ph]] :
        remote \in BOOLEAN, cm \in BOOLEAN, pm \in BOOLEAN,
        cp \in PartitionsDefs, pp \in PartitionsDefs,
        mapping \in PartitionMappings,
        ch \in RepositoryHandles, ph \in RepositoryHandles}

NoCall == [remote |-> FALSE, nodes |-> EmptyFun, partition_mapping |-> EmptyFun,
           repository_handle |-> EmptyFun]

----------------------------------------------------------------------------
\* The cached properties of the graph (functools.cached_property)

\* The threads that read the graph concurrently.
NumReaders == 2
Readers == 1..NumReaders

CachedProperties == {"assets_defs", "asset_check_keys"}

\* An entry of the instance's __dict__: _NOT_FOUND, or the value stored.
NotFound == [found |-> FALSE, val |-> {}]
Found(val) == [found |-> TRUE, val |-> val]

\* No cached property was read yet.
EmptyCache == [attrname \in CachedProperties |-> NotFound]

\* cache[self.attrname] = val
CacheStore(c, attrname, val) == [c EXCEPT ![attrname] = Found(val)]

\* A thread that reads no property.
IdleReader == [pc |-> "idle", attrname |-> "", val |-> {}, inner |-> {}]
IdleReaders == [r \in Readers |-> IdleReader]

----------------------------------------------------------------------------
\* The state machine

Init ==
    /\ assets = <<>>
    /\ pc = "input"
    /\ graph = EmptyGraph
    /\ assets_defs = <<>>
    /\ assets_defs_by_op_node_names = EmptyFun
    /\ exec_sets = [asset |-> EmptyFun, check |-> EmptyFun, asset_keys |-> EmptyFun]
    /\ call = NoCall
    /\ result = FALSE
    /\ evaluation = EmptyFun
    /\ cache = EmptyCache
    /\ readers = IdleReaders

\* The caller adds definition `a` to the collection.  No two definitions of a
\* collection define the same asset key or the same check key.
Add(a) ==
    /\ pc = "input"
    /\ \A i \in DOMAIN assets :
        /\ InputKeys(assets[i]) \cap InputKeys(a) = {}
        /\ InputCheckKeys(assets[i]) \cap InputCheckKeys(a) = {}
    /\ assets' = Append(assets, a)

AddAsset ==
    /\ Len(assets) < MaxDefs
    /\ \E a \in Inputs : Add(a)
    /\ UNCHANGED <<evaluation, cache, readers,
                   pc, graph, assets_defs, assets_defs_by_op_node_names, exec_sets,
                   call, result>>

\* AssetGraph.from_assets(assets)
FromAssets ==
    /\ pc = "input"
    /\ \E order \in Orders(MissingKeys(ConvertSources(assets))) :
        LET ads == normalize_assets(assets, order)
            r == from_normalized(ads)
        IN /\ assets_defs' = ads
           /\ assets_defs_by_op_node_names' = r.names.map
           /\ graph' = r.graph
           /\ pc' = IF r.raised THEN "failed" ELSE "built"
    /\ UNCHANGED <<evaluation, cache, readers,
                   assets, exec_sets, call, result>>

\* get_execution_set_asset_and_check_keys for every key of the graph
GetExecutionSets ==
    /\ pc = "built"
    /\ exec_sets' =
         [asset |-> [k \in DOMAIN graph.asset_nodes_by_key |->
                       ExecutionSetOfAsset(graph, k)],
          check |-> [ck \in DOMAIN graph.assets_defs_by_check_key |->
                       ExecutionSetOfCheck(graph, ck)],
          asset_keys |-> exec_sets.asset_keys]
    /\ pc' = "queried"
    /\ UNCHANGED <<evaluation, cache, readers,
                   assets, graph, assets_defs, assets_defs_by_op_node_names,
                   call, result>>

\* AssetNode.execution_set_asset_keys of every node of the graph
GetExecutionSetAssetKeys ==
    /\ pc = "queried"
    /\ exec_sets' =
         [exec_sets EXCEPT !.asset_keys =
            [k \in DOMAIN graph.asset_nodes_by_key |->
               execution_set_asset_keys(Get(graph, k))]]
    /\ UNCHANGED <<evaluation, cache, readers,
                   assets, pc, graph, assets_defs, assets_defs_by_op_node_names,
                   call, result>>

Next == AddAsset \/ FromAssets \/ GetExecutionSets \/ GetExecutionSetAssetKeys

Spec == Init /\ [][Next]_vars

\* Collections of up to MaxNamedDefs definitions without dependencies, whose
\* op names and wiring vary.
AddNamedAsset ==
    /\ Len(assets) < MaxNamedDefs
    /\ \E a \in NamedDefs \cup ChecksDefs : Add(a)
    /\ UNCHANGED <<evaluation, cache, readers,
                   pc, graph, assets_defs, assets_defs_by_op_node_names, exec_sets,
                   call, result>>

NamesNext ==
    AddNamedAsset \/ FromAssets \/ GetExecutionSets \/ GetExecutionSetAssetKeys

NamesSpec == Init /\ [][NamesNext]_vars

\* A caller holds a graph of a child and a parent.
SameRunInit ==
    /\ assets = <<>>
    /\ pc = "call"
    /\ graph = EmptyGraph
    /\ assets_defs = <<>>
    /\ assets_defs_by_op_node_names = EmptyFun
    /\ exec_sets = [asset |-> EmptyFun, check |-> EmptyFun, asset_keys |-> EmptyFun]
    /\ call \in SameRunGraphs
    /\ result = FALSE
    /\ evaluation = EmptyFun
    /\ cache = EmptyCache
    /\ readers = IdleReaders

\* materializable_in_same_run(call, ChildKey, ParentKey)
MaterializableInSameRun ==
    /\ pc = "call"
    /\ result' = materializable_in_same_run(call, ChildKey, ParentKey)
    /\ pc' = "returned"
    /\ UNCHANGED <<evaluation, cache, readers,
                   assets, graph, assets_defs, assets_defs_by_op_node_names,
                   exec_sets, call>>

SameRunSpec == SameRunInit /\ [][MaterializableInSameRun]_vars

----------------------------------------------------------------------------
\* Properties

Built == pc \in {"built", "queried"}
Nodes == graph.asset_nodes_by_key
NodeKeys == DOMAIN graph.asset_nodes_by_key
BoundChecks == DOMAIN graph.assets_defs_by_check_key

\* The definitions from_assets worked on, as a set.
Defs == Range(assets_defs)
\* The stub definitions normalize_assets appended to the given ones.
Stubs == {assets_defs[i] : i \in (Len(assets) + 1)..Len(assets_defs)}

\* What the execution-set resolver is to answer for identifier `one` (a
\* KeySet of one element) of definition `ad`.
ExpectedExecutionSet(ad, one) ==
    IF ~ad.can_subset /\ Cardinality(ad.keys) + Cardinality(ad.check_keys) > 1
    THEN KeySet(ad.keys, ad.check_keys)
    ELSE one

C2_AdjacencySymmetric ==
    Built =>
        \A a, b \in NodeKeys :
            b \in Nodes[a].child_keys <=> a \in Nodes[b].parent_keys

\* C2 witness: a built graph with an edge between two different nodes.
C2_Witness ==
    /\ Built
    /\ \E a, b \in NodeKeys :
        a # b /\ b \in Nodes[a].child_keys /\ a \in Nodes[b].parent_keys

\* C3: in every built graph the parent keys and child keys of every node, and
\* the asset of every check key the graph binds, are keys of nodes of the graph.
C3_NoDanglingReference ==
    Built =>
        /\ \A k \in NodeKeys :
              Nodes[k].parent_keys \cup Nodes[k].child_keys \subseteq NodeKeys
        /\ \A ck \in BoundChecks : ck[1] \in NodeKeys
        /\ \A k \in NodeKeys : \A ck \in Nodes[k].check_keys : ck[1] \in NodeKeys

\* C3 witness: a built graph in which a parent key and the asset of a bound
\* check are nodes only because a stub was made for them.
C3_Witness ==
    /\ Built
    /\ \E k \in NodeKeys : \E p \in Nodes[k].parent_keys :
          Nodes[p].assets_def.auto_created_stub
    /\ \E ck \in BoundChecks : Nodes[ck[1]].assets_def.auto_created_stub

Returned == pc = "returned"
Child == call.nodes[ChildKey]
Parent == call.nodes[ParentKey]
SameLocality ==
    ~call.remote \/ call.repository_handle[ChildKey] = call.repository_handle[ParentKey]

\* C4: materializable_in_same_run returns true exactly when both nodes are
\* materializable, their partitioning is identical, the parent is
\* unpartitioned or the mapping is a time-window or identity mapping, and, on
\* a remote graph, both have the same repository handle.
C4_SameRunIff ==
    Returned =>
        (result <=>
            /\ Child.is_materializable /\ Parent.is_materializable
            /\ Child.partitions_def = Parent.partitions_def
            /\ \/ Parent.partitions_def = "None"
               \/ call.partition_mapping[<<ChildKey, ParentKey>>]
                    \in {"TimeWindowPartitionMapping", "IdentityPartitionMapping"}
            /\ call.remote =>
                 call.repository_handle[ChildKey] = call.repository_handle[ParentKey])

\* C4 witness: a call on a remote graph whose nodes pass every other test and
\* differ in their repository handle only, which returned false.
C4_Witness ==
    /\ Returned
    /\ call.remote
    /\ Child.is_materializable /\ Parent.is_materializable
    /\ Child.partitions_def = "daily" /\ Parent.partitions_def = "daily"
    /\ call.partition_mapping[<<ChildKey, ParentKey>>] = "IdentityPartitionMapping"
    /\ call.repository_handle[ChildKey] # call.repository_handle[ParentKey]
    /\ ~result

\* The case of C5: a parent partitioned by day, a time-window mapping, both
\* nodes materializable and in the same locality group.
DailyParentCase ==
    /\ Returned
    /\ Parent.partitions_def = "daily"
    /\ call.partition_mapping[<<ChildKey, ParentKey>>] = "TimeWindowPartitionMapping"
    /\ Child.is_materializable /\ Parent.is_materializable
    /\ SameLocality

\* C5 as claimed: with an unpartitioned child the call returns true.
C5_UnpartitionedChildTrue ==
    DailyParentCase /\ Child.partitions_def = "None" => result

\* C5 as amended: in that case the call returns true when the child is
\* partitioned by day as the parent is, and false when the child is
\* unpartitioned.
C5_DailyParent ==
    DailyParentCase =>
        /\ Child.partitions_def = "daily" => result
        /\ Child.partitions_def = "None" => ~result

\* C5 witness: the call with the daily parent and the unpartitioned child
\* returned false.
C5_Witness ==
    DailyParentCase /\ Child.partitions_def = "None" /\ ~result

Called == pc \in {"built", "queried", "failed"}
Given == ConvertSources(assets)
GivenKeys == UNION {Given[i].keys : i \in DOMAIN Given}
\* The keys some given definition names as a dependency or as the asset of a
\* check.
ReferencedKeys ==
    UNION {UNION {Given[i].asset_deps[k] : k \in Given[i].keys} : i \in DOMAIN Given}
        \cup UNION {{ck[1] : ck \in Given[i].check_keys} : i \in DOMAIN Given}
StubIndexes == (Len(assets) + 1)..Len(assets_defs)

\* C9: after from_assets, the definitions normalize_assets appended are one
\* stub for each key that is referenced and not defined, no stub is of a
\* defined key, every stub is unexecutable, not materializable and carries the
\* stub tag, and from_assets did not fail unless a given definition's wiring
\* is malformed.
C9_StubPerMissingKey ==
    Called =>
        /\ \A k \in ReferencedKeys \ GivenKeys :
              Cardinality({i \in StubIndexes : k \in assets_defs[i].keys}) = 1
        /\ \A i \in StubIndexes :
              /\ Cardinality(assets_defs[i].keys) = 1
              /\ assets_defs[i].keys \subseteq ReferencedKeys \ GivenKeys
              /\ ~is_executable(assets_defs[i])
              /\ ~is_materializable(assets_defs[i])
              /\ assets_defs[i].auto_created_stub
        /\ \A i \in 1..Len(assets) : assets_defs[i] = Given[i]
        /\ (\A i \in DOMAIN Given : Given[i].wired) => pc # "failed"

\* C9 witness: a graph was built from a collection that references a key it
\* does not define as a dependency, and the key's node is a stub.
C9_Witness ==
    /\ Built
    /\ \E i \in DOMAIN Given : \E k \in Given[i].keys :
          \E d \in Given[i].asset_deps[k] :
              /\ d \notin GivenKeys
              /\ d \in NodeKeys
              /\ Nodes[d].assets_def.auto_created_stub
              /\ ~is_executable(Nodes[d].assets_def)

\* The definitions whose outputs from_assets resolves: those that have an
\* entry of assets_defs_by_op_node_names.
Flattened ==
    {assets_defs_by_op_node_names[a] : a \in DOMAIN assets_defs_by_op_node_names}

\* C10 as claimed: when one given definition's wiring is malformed and every
\* other one resolves, from_assets still returns a graph.
C10_FailureKeptToDefinition ==
    Called =>
        ((\E i \in DOMAIN Given :
            /\ ~Given[i].wired
            /\ \E j \in DOMAIN Given : j # i
            /\ \A j \in DOMAIN Given : j # i => Given[j].wired)
         => pc # "failed")

\* C10 as amended: from_assets raises, and returns no graph, exactly when the
\* wiring of some definition whose outputs it resolves is malformed, whatever
\* the other definitions are.
C10_FailureAbortsConstruction ==
    Called =>
        /\ pc = "failed" <=> \E ad \in Flattened : ~ad.wired
        /\ pc = "failed" => graph = EmptyGraph

\* C10 witness: from_assets failed on a collection of a malformed definition
\* and a well-wired executable one.
C10_Witness ==
    /\ pc = "failed"
    /\ \E ad \in Flattened : ~ad.wired
    /\ \E ad \in Flattened : ad.wired /\ ad.keys # {}

\* What from_assets does with the given definitions taken in the order `p`:
\* whether it raises, the graph, and the aliases of the definitions' nodes.
Rebuilt(p) ==
    {from_normalized(normalize_assets(Permuted(assets, p), order)) :
        order \in Orders(MissingKeys(Given))}

\* What C6 compares of two graphs: the node keys with their parents, children,
\* owning definition and check keys, and the definition of each check key.
Bindings(g) ==
    [nodes |-> g.asset_nodes_by_key, checks |-> g.assets_defs_by_check_key]

\* C6: the graph from_assets returns on any permutation of the given
\* definitions has the same node keys, parent and child keys, owning
\* definitions and check bindings as the graph it returned on them.
C6_OrderIndependent ==
    Built =>
        \A p \in PermutationsOf(Len(assets)) : \A r \in Rebuilt(p) :
            r.raised \/ Bindings(r.graph) = Bindings(graph)

\* The place of definition `ad` among the executable definitions of its node
\* name, in the order of the sort.
PlaceAmongNamesakes(ad) ==
    LET sorted == SortByKeys(assets_defs)
        at == CHOOSE i \in DOMAIN sorted : sorted[i] = ad
    IN Cardinality({j \in 1..at : /\ is_executable(sorted[j])
                                  /\ sorted[j].node_name = ad.node_name})

\* C7: every executable definition is given the alias of its place among the
\* definitions of its node name (the name for the first, name_k for the
\* k-th), and every permutation of the given definitions gives every alias
\* to the same definition.
C7_AliasesDeterministic ==
    Built =>
        /\ \A a \in DOMAIN assets_defs_by_op_node_names :
              LET ad == assets_defs_by_op_node_names[a]
                  k == PlaceAmongNamesakes(ad)
              IN a = IF k = 1 THEN ad.node_name ELSE NodeAlias(ad.node_name, k)
        /\ \A p \in PermutationsOf(Len(assets)) : \A r \in Rebuilt(p) :
              r.names.map = assets_defs_by_op_node_names

\* C8: in a built graph every check key a given definition declares is bound
\* to that definition, has a spec, is a check key of its asset's node and is
\* among asset_check_keys; and every check key of a node is bound.
C8_ChecksBound ==
    Built =>
        /\ \A i \in DOMAIN Given : \A ck \in Given[i].check_keys :
              /\ ck \in BoundChecks
              /\ graph.assets_defs_by_check_key[ck] = Given[i]
              /\ HasSpecForAssetCheck(graph, ck)
              /\ ck[1] \in NodeKeys
              /\ ck \in Nodes[ck[1]].check_keys
              /\ ck \in asset_check_keys(graph)
        /\ \A k \in NodeKeys : Nodes[k].check_keys \subseteq BoundChecks

----------------------------------------------------------------------------
\* Aliases of the definitions' nodes

\* The executable definitions from_assets worked on, by their place in the list.
ExecutableIndexes == {i \in DOMAIN assets_defs : is_executable(assets_defs[i])}

\* C13: after _build_assets_defs_by_op_node_names the result has exactly one
\* entry for each executable definition (none is overwritten by another, also
\* when a node is named like a generated alias) and no entry for a definition
\* that is not executable.
C13_AliasPerDefinition ==
    Called =>
        /\ \A i \in ExecutableIndexes :
              Cardinality({a \in DOMAIN assets_defs_by_op_node_names :
                              assets_defs_by_op_node_names[a] = assets_defs[i]}) = 1
        /\ \A a \in DOMAIN assets_defs_by_op_node_names :
              is_executable(assets_defs_by_op_node_names[a])
        /\ Cardinality(DOMAIN assets_defs_by_op_node_names)
              = Cardinality(ExecutableIndexes)

----------------------------------------------------------------------------
\* The two execution-set views

\* C15: for every node of a built graph, execution_set_asset_keys is the set
\* of asset keys of execution_set_asset_and_check_keys.
C15_ViewsAgree ==
    pc = "queried" =>
        \A k \in DOMAIN exec_sets.asset_keys :
            /\ k \in DOMAIN exec_sets.asset
            /\ exec_sets.asset_keys[k] = exec_sets.asset[k].asset_keys

\* C15 witness: both views were computed for the node of a non-subsettable
\* definition of one asset and one check: the asset alone in one, the asset
\* and the check in the other.
C15_Witness ==
    /\ pc = "queried"
    /\ \E k \in DOMAIN exec_sets.asset_keys :
        /\ ~Nodes[k].assets_def.can_subset
        /\ Nodes[k].assets_def.keys = {k}
        /\ Nodes[k].assets_def.check_keys = {<<k, "c">>}
        /\ exec_sets.asset_keys[k] = {k}
        /\ exec_sets.asset[k] = KeySet({k}, {<<k, "c">>})

\* C15 second witness: both views were computed for a node of a subsettable
\* definition of several assets, and both hold the node's key alone.
C15_SubsettableSeen ==
    /\ pc = "queried"
    /\ \E k \in DOMAIN exec_sets.asset_keys :
        /\ Nodes[k].assets_def.can_subset
        /\ Cardinality(Nodes[k].assets_def.keys) > 1
        /\ exec_sets.asset_keys[k] = {k}
        /\ exec_sets.asset[k] = KeySet({k}, {})

----------------------------------------------------------------------------
\* Execution sets as a partition

\* The execution set the graph answers for an asset key or a check key of
\* `ids` (a KeySet); a check key the graph has no definition for has none
\* (the lookup of line 412 raises KeyError), which is the empty KeySet here.
NoExecutionSet == KeySet({}, {})
ExecutionSetOfAssetKey(k) ==
    IF k \in DOMAIN exec_sets.asset THEN exec_sets.asset[k] ELSE NoExecutionSet
ExecutionSetOfCheckKey(ck) ==
    IF ck \in DOMAIN exec_sets.check THEN exec_sets.check[ck] ELSE NoExecutionSet

\* Every member of the execution set `es` has `es` as its own execution set.
ClosedExecutionSet(es) ==
    /\ \A y \in es.asset_keys : ExecutionSetOfAssetKey(y) = es
    /\ \A y \in es.check_keys : ExecutionSetOfCheckKey(y) = es

\* C16: in a graph built from definitions with pairwise disjoint key sets,
\* every asset key and check key is a member of its own execution set, and
\* every member of an execution set has that same set as its execution set.
C16_ExecutionSetsPartition ==
    pc = "queried" =>
        /\ \A k \in NodeKeys :
              /\ k \in exec_sets.asset[k].asset_keys
              /\ ClosedExecutionSet(exec_sets.asset[k])
        /\ \A ck \in BoundChecks :
              /\ ck \in exec_sets.check[ck].check_keys
              /\ ClosedExecutionSet(exec_sets.check[ck])

----------------------------------------------------------------------------
\* _resolve_output_to_destinations

\* The nesting depth of the node definitions the function is called on.
MaxDepth == 2

OutputNames == {"result", "other", "missing"}

\* NodeHandle(name, parent): the path of node names from the outermost node.
NodeHandle(name, parent) == Append(parent, name)

NodeInputHandle(node_handle, input_name) ==
    [node_handle |-> node_handle, input_name |-> input_name]

\* An OpDefinition with the input "in" and the output "result".
OpDefinition == [kind |-> "op"]

\* A GraphDefinition of two nodes a and b.  Its output "result" is mapped from
\* a's output "result" and its output "other" from b's; `wired` says whether
\* b's input "in" consumes a's output "result"; its input "in" is mapped to
\* the input "in" of node `in_to`.
GraphDefinition(def_a, def_b, wired, in_to) ==
    [kind |-> "graph",
     nodes |-> [n \in {"a", "b"} |-> IF n = "a" THEN def_a ELSE def_b],
     output_mappings |->
        <<[graph_output_name |-> "result",
           maps_from |-> [node_name |-> "a", output_name |-> "result"]],
          [graph_output_name |-> "other",
           maps_from |-> [node_name |-> "b", output_name |-> "result"]]>>,
     input_mappings |->
        <<[graph_input_name |-> "in",
           maps_to |-> [node_name |-> in_to, input_name |-> "in"]]>>,
     downstream |->
        [o \in (IF wired THEN {<<"a", "result">>} ELSE {}) |->
            <<[node_name |-> "b", input_name |-> "in"]>>]]

RECURSIVE NodeDefinitions(_)
\* The node definitions nested at most `depth` deep.
NodeDefinitions(depth) ==
    IF depth = 0 THEN {OpDefinition}
    ELSE LET inner == NodeDefinitions(depth - 1)
         IN inner \cup {GraphDefinition(a, b, w, i) :
                           a \in inner, b \in inner, w \in BOOLEAN, i \in {"a", "b"}}

RECURSIVE resolve_output_to_destinations(_, _, _)
RECURSIVE OutputMappingsLoop(_, _, _, _)

\* The loop over node_def.output_mappings, from `mappings` on.
OutputMappingsLoop(mappings, output_name, node_def, handle) ==
    IF mappings = <<>> THEN <<>>
    ELSE LET mapping == Head(mappings)
             rest == OutputMappingsLoop(Tail(mappings), output_name, node_def, handle)
         IN IF mapping.graph_output_name # output_name THEN rest
            ELSE LET output_pointer == mapping.maps_from
                     output_node == node_def.nodes[output_pointer.node_name]
                     inner == resolve_output_to_destinations(
                                  output_pointer.output_name,
                                  output_node,
                                  NodeHandle(output_pointer.node_name, handle))
                     node_output == <<output_pointer.node_name, output_pointer.output_name>>
                     downstream_input_handles ==
                         IF node_output \in DOMAIN node_def.downstream
                         THEN node_def.downstream[node_output]
                         ELSE <<>>
                 IN inner
                    \o [i \in DOMAIN downstream_input_handles |->
                          NodeInputHandle(
                              NodeHandle(downstream_input_handles[i].node_name, handle),
                              downstream_input_handles[i].input_name)]
                    \o rest

resolve_output_to_destinations(output_name, node_def, handle) ==
    IF node_def.kind # "graph" THEN <<>>
    ELSE OutputMappingsLoop(node_def.output_mappings, output_name, node_def, handle)

\* A call of _resolve_output_to_destinations on the node of a definition.
ResolveInit ==
    /\ assets = <<>>
    /\ pc = "resolve"
    /\ graph = EmptyGraph
    /\ assets_defs = <<>>
    /\ assets_defs_by_op_node_names = EmptyFun
    /\ exec_sets = [asset |-> EmptyFun, check |-> EmptyFun, asset_keys |-> EmptyFun]
    /\ call \in [output_name : OutputNames,
                 node_def : NodeDefinitions(MaxDepth),
                 handle : {<<"foo">>}]
    /\ result = <<>>
    /\ evaluation = EmptyFun
    /\ cache = EmptyCache
    /\ readers = IdleReaders

ResolveOutputToDestinations ==
    /\ pc = "resolve"
    /\ result' = resolve_output_to_destinations(call.output_name, call.node_def,
                                                call.handle)
    /\ pc' = "resolved"
    /\ UNCHANGED <<evaluation, cache, readers,
                   assets, graph, assets_defs, assets_defs_by_op_node_names,
                   exec_sets, call>>

ResolveSpec == ResolveInit /\ [][ResolveOutputToDestinations]_vars

RECURSIVE resolve_input_to_destinations(_, _, _)
\* NodeDefinition.resolve_input_to_destinations: the inputs of leaf ops that
\* consume input `input_name` of the node at `handle`.
resolve_input_to_destinations(input_name, node_def, handle) ==
    IF node_def.kind # "graph" THEN {NodeInputHandle(handle, input_name)}
    ELSE UNION {
        resolve_input_to_destinations(
            node_def.input_mappings[i].maps_to.input_name,
            node_def.nodes[node_def.input_mappings[i].maps_to.node_name],
            NodeHandle(node_def.input_mappings[i].maps_to.node_name, handle))
        : i \in {j \in DOMAIN node_def.input_mappings :
                    node_def.input_mappings[j].graph_input_name = input_name}}

RECURSIVE LeafConsumers(_, _, _)
\* The inputs of leaf ops that consume the step output behind output
\* `output_name` of the node at `handle`, at every level of nesting.
LeafConsumers(output_name, node_def, handle) ==
    IF node_def.kind # "graph" THEN {}
    ELSE UNION {
        LET from == node_def.output_mappings[i].maps_from
            node_output == <<from.node_name, from.output_name>>
            consumers == IF node_output \in DOMAIN node_def.downstream
                         THEN Range(node_def.downstream[node_output])
                         ELSE {}
        IN LeafConsumers(from.output_name, node_def.nodes[from.node_name],
                         NodeHandle(from.node_name, handle))
           \cup UNION {resolve_input_to_destinations(
                           c.input_name, node_def.nodes[c.node_name],
                           NodeHandle(c.node_name, handle)) : c \in consumers}
        : i \in {j \in DOMAIN node_def.output_mappings :
                    node_def.output_mappings[j].graph_output_name = output_name}}

\* C14: _resolve_output_to_destinations returns the empty sequence for a leaf
\* op, and for a subgraph exactly the inputs of leaf ops that consume the
\* step output mapped to the outer output, at every level of nesting, a
\* consumer that is a subgraph being resolved down to its leaf inputs.
C14_LeafDestinations ==
    pc = "resolved" =>
        /\ call.node_def.kind = "op" => result = <<>>
        /\ Range(result) = LeafConsumers(call.output_name, call.node_def, call.handle)

----------------------------------------------------------------------------
\* Concurrent first access of the cached properties

\* The body of asset_check_keys on the value self.assets_defs gave.
CheckKeysOf(defs) == UNION {ad.check_keys : ad \in defs}

\* Thread r reads graph.<attrname>: cached_property.__get__ looks the name up
\* in the instance's __dict__ and returns what it finds there.
Access(r) ==
    /\ pc = "built"
    /\ readers[r].pc = "idle"
    /\ \E attrname \in CachedProperties :
        readers' = [readers EXCEPT ![r] =
            IF cache[attrname].found
            THEN [pc |-> "done", attrname |-> attrname,
                  val |-> cache[attrname].val, inner |-> {}]
            ELSE [pc |-> "miss", attrname |-> attrname, val |-> {}, inner |-> {}]]
    /\ UNCHANGED <<assets, pc, graph, assets_defs, assets_defs_by_op_node_names,
                   exec_sets, call, result, evaluation, cache>>

\* After a miss thread r calls the property's function.  The function of
\* asset_check_keys reads self.assets_defs, another cached property: on a hit
\* it goes on with the cached value, on a miss it calls that function first.
Compute(r) ==
    /\ readers[r].pc = "miss"
    /\ readers' = [readers EXCEPT ![r] =
        IF readers[r].attrname = "assets_defs"
        THEN [@ EXCEPT !.pc = "store", !.val = graph_assets_defs(graph)]
        ELSE IF cache["assets_defs"].found
        THEN [@ EXCEPT !.pc = "store",
                       !.inner = cache["assets_defs"].val,
                       !.val = CheckKeysOf(cache["assets_defs"].val)]
        ELSE [@ EXCEPT !.pc = "inner_store", !.inner = graph_assets_defs(graph)]]
    /\ UNCHANGED <<assets, pc, graph, assets_defs, assets_defs_by_op_node_names,
                   exec_sets, call, result, evaluation, cache>>

\* Thread r, inside asset_check_keys, stores the assets_defs it computed and
\* goes on with the body of asset_check_keys.
InnerStore(r) ==
    /\ readers[r].pc = "inner_store"
    /\ cache' = CacheStore(cache, "assets_defs", readers[r].inner)
    /\ readers' = [readers EXCEPT ![r] =
                      [@ EXCEPT !.pc = "store", !.val = CheckKeysOf(readers[r].inner)]]
    /\ UNCHANGED <<assets, pc, graph, assets_defs, assets_defs_by_op_node_names,
                   exec_sets, call, result, evaluation>>

\* Thread r stores the value it computed and returns it.
Store(r) ==
    /\ readers[r].pc = "store"
    /\ cache' = CacheStore(cache, readers[r].attrname, readers[r].val)
    /\ readers' = [readers EXCEPT ![r] = [@ EXCEPT !.pc = "done"]]
    /\ UNCHANGED <<assets, pc, graph, assets_defs, assets_defs_by_op_node_names,
                   exec_sets, call, result, evaluation>>

\* Definitions of one asset or of one check, from which the graphs that are
\* read concurrently are built.
CachedDefs ==
    UNION {{AssetsDef({k}, DepsFor({k}, {}), cks, FALSE, "foo", TRUE) :
               cks \in {{}, {<<k, "c">>}}} : k \in Keys}
    \cup {AssetsDef({}, EmptyFun, {ck}, FALSE, "bar", TRUE) : ck \in CheckKeys}

AddCachedAsset ==
    /\ Len(assets) < MaxDefs
    /\ \E a \in CachedDefs : Add(a)
    /\ UNCHANGED <<pc, graph, assets_defs, assets_defs_by_op_node_names, exec_sets,
                   call, result, evaluation, cache, readers>>

CacheNext ==
    \/ AddCachedAsset
    \/ FromAssets
    \/ \E r \in Readers : Access(r) \/ Compute(r) \/ InnerStore(r) \/ Store(r)

CacheSpec == Init /\ [][CacheNext]_vars

\* The definitions of assets_defs that the graph refers to, from a node or
\* from a check key.
ReferencedDefs ==
    {ad \in Defs :
        \/ \E k \in NodeKeys : Nodes[k].assets_def = ad
        \/ \E ck \in BoundChecks : graph.assets_defs_by_check_key[ck] = ad}

\* The value a cached property is to have.
ExpectedValue(attrname) ==
    IF attrname = "assets_defs" THEN ReferencedDefs
    ELSE UNION {ad.check_keys : ad \in ReferencedDefs}

\* C12: whatever the interleaving of the threads that race on the first
\* access, every thread that has read a cached property got the same value,
\* the definitions (or their check keys) the graph refers to; the value
\* stored in the cache is that value; and the graph's fields are what
\* from_assets made them.
C12_ConcurrentFirstAccess ==
    pc = "built" =>
        /\ \A r \in Readers :
              readers[r].pc = "done" =>
                  /\ readers[r].val = ExpectedValue(readers[r].attrname)
                  /\ cache[readers[r].attrname] = Found(readers[r].val)
        /\ \A attrname \in CachedProperties :
              cache[attrname].found =>
                  cache[attrname].val = ExpectedValue(attrname)
        /\ graph = from_normalized(assets_defs).graph

\* C12 witness: two threads missed the cache of the same property, both
\* computed and stored it, and a graph with a definition of a check alone
\* gave both the same definitions.
C12_Witness ==
    /\ pc = "built"
    /\ \E ad \in ReferencedDefs : ad.keys = {}
    /\ \E r1, r2 \in Readers :
        /\ r1 # r2
        /\ readers[r1].pc = "done" /\ readers[r2].pc = "done"
        /\ readers[r1].attrname = "asset_check_keys"
        /\ readers[r2].attrname = "asset_check_keys"
        /\ readers[r1].inner # {} /\ readers[r2].inner # {}
        /\ readers[r1].val = readers[r2].val
        /\ readers[r1].val # {}

----------------------------------------------------------------------------
\* Evaluation of the assets' conditions within one tick

\* Definitions whose dependencies vary, and source assets.
TickDefs == {ad \in StructuralDefs : ad.check_keys = {}} \cup SourceAssets

AddTickAsset ==
    /\ Len(assets) < MaxDefs
    /\ \E a \in TickDefs : Add(a)
    /\ UNCHANGED <<pc, graph, assets_defs, assets_defs_by_op_node_names, exec_sets,
                   call, result, evaluation, cache, readers>>

\* A tick begins: no asset of the graph has been evaluated in it.
StartTick ==
    /\ pc = "built"
    /\ pc' = "tick"
    /\ evaluation' = [k \in DOMAIN graph.asset_nodes_by_key |-> "pending"]
    /\ UNCHANGED <<assets, graph, assets_defs, assets_defs_by_op_node_names,
                   exec_sets, call, result, cache, readers>>

\* The scheduler starts the evaluation of asset k, which it does once every
\* parent of k's node has completed its evaluation for the tick.
StartEvaluation(k) ==
    /\ pc = "tick"
    /\ evaluation[k] = "pending"
    /\ \A p \in Get(graph, k).parent_keys : evaluation[p] = "completed"
    /\ evaluation' = [evaluation EXCEPT ![k] = "started"]
    /\ UNCHANGED <<assets, pc, graph, assets_defs, assets_defs_by_op_node_names,
                   exec_sets, call, result, cache, readers>>

\* The evaluation of asset k completes.
CompleteEvaluation(k) ==
    /\ pc = "tick"
    /\ evaluation[k] = "started"
    /\ evaluation' = [evaluation EXCEPT ![k] = "completed"]
    /\ UNCHANGED <<assets, pc, graph, assets_defs, assets_defs_by_op_node_names,
                   exec_sets, call, result, cache, readers>>

TickNext ==
    \/ AddTickAsset
    \/ FromAssets
    \/ StartTick
    \/ \E k \in DOMAIN evaluation : StartEvaluation(k) \/ CompleteEvaluation(k)

TickSpec == Init /\ [][TickNext]_vars

\* The keys the given definitions declare asset k to depend on.
DeclaredParents(k) ==
    UNION {Given[i].asset_deps[k] : i \in {j \in DOMAIN Given : k \in Given[j].keys}}

C11_UnrelatedInterleaved ==
    /\ pc = "tick"
    /\ \E a, b \in DOMAIN evaluation :
        /\ a # b
        /\ a \notin DeclaredParents(b) /\ b \notin DeclaredParents(a)
        /\ evaluation[a] = "started" /\ evaluation[b] = "started"

====
